---- MODULE Spec2Model ----
(***************************************************************************)
(* LymphHub forward-auth gateway (backend/main.py).                        *)
(*                                                                         *)
(* The gateway itself is stateless.  The state of the system is what lives *)
(* around it: the identity provider (its clock, the single sign-on         *)
(* sessions it holds, the authorization codes it has handed out), the      *)
(* client (its cookie jar and where it is in the login flow) and the       *)
(* request/response exchange the gateway is answering.  Every handler of   *)
(* main.py is one action: it reads a request, talks to the provider and    *)
(* produces one response.  The handlers are written as operators from a    *)
(* request and the provider's state to a response, so each can be read     *)
(* against its source.                                                     *)
(***************************************************************************)
EXTENDS Naturals, Sequences, FiniteSets, TLC

VARIABLES
    now,        \* the provider's clock
    sessions,   \* the users with a live session at the provider
    codes,      \* the authorization codes the provider has outstanding
    jar,        \* the client's cookie jar: None or the cookie it holds
    nav,        \* where the client is in the login flow
    last,       \* the exchange being answered: request, handler result
    realm,      \* the clients of realm toji: clientId -> entry or None
    minted,     \* the number of client secrets the provider has generated
    sdk         \* the last call of the Keycloak SDK and what it returned

vars == <<now, sessions, codes, jar, nav, last, realm, minted, sdk>>

(***************************************************************************)
(* Bounds of the model.                                                    *)
(***************************************************************************)
\* The provider's clock runs over 0..MaxTime; token expiry times lie in it.
MaxTime == 1
\* Authorization codes the provider may have outstanding at one time.
MaxCodes == 1

(***************************************************************************)
(* Configuration (main.py lines 12-17).                                    *)
(***************************************************************************)
KEYCLOAK_URL == "https://auth.lyckabc.xyz"
KEYCLOAK_REALM == "toji"
KEYCLOAK_CLIENT_ID == "lymphhub-portal"
LYMPHHUB_PUBLIC_URL == "https://lymphhub.lyckabc.xyz"
COOKIE_DOMAIN == ".lyckabc.xyz"

\* A variant in which the key appears among the globals while the gateway
\* runs.
KEYCLOAK_PUBLIC_KEY_in_globals_Late == now > 0

\* main.py never assigns KEYCLOAK_PUBLIC_KEY, so the test
\* 'KEYCLOAK_PUBLIC_KEY' in globals() of line 83 is false in every run.
KEYCLOAK_PUBLIC_KEY_in_globals == FALSE

\* Python's None, and the absence of an optional value.
None == [none |-> TRUE]

\* dict.get(key, default), Headers.get(key, default)
Get(d, k, default) == IF k \in DOMAIN d THEN d[k] ELSE default

(***************************************************************************)
(* Tokens.  A session token is a provider-issued JWT; what matters of it   *)
(* is who it is for, whether its signature verifies, its audience and its  *)
(* expiry time.  A cookie may also hold text that is no JWT, or nothing.   *)
(***************************************************************************)
Users == {"alice", "svc"}

\* The claims the provider holds for a user.  The service account has
\* neither an email nor a display name.
UserClaims(u) ==
    IF u = "alice"
    THEN [preferred_username |-> "alice", email |-> "alice@lyckabc.xyz",
          name |-> "Alice Kim", sub |-> "alice"]
    ELSE [preferred_username |-> "svc", sub |-> "svc"]

Audiences == {KEYCLOAK_CLIENT_ID, "pgadmin"}

Jwts == [user : Users, sig : {"good", "bad"}, aud : Audiences, exp : 1..MaxTime]

Malformed == [raw |-> "not-a-jwt"]
EmptyString == [raw |-> ""]

CookieValues == Jwts \cup {Malformed, EmptyString}

\* The text parses as a JWT.
IsJwt(v) == DOMAIN v = {"user", "sig", "aud", "exp"}

\* Python truthiness of Optional[str]: None and "" are falsy.
Falsy(v) == v = None \/ v = EmptyString

(***************************************************************************)
(* The identity provider, as python-keycloak's KeycloakOpenID reaches it.  *)
(* Every call is a network call: `up` says whether the provider answered.  *)
(* A call returns [ok |-> TRUE, value |-> ...] or raises, which is         *)
(* [ok |-> FALSE, error |-> ...].                                          *)
(***************************************************************************)
Return(v) == [ok |-> TRUE, value |-> v]
Raise(e) == [ok |-> FALSE, error |-> e]

\* The token is one the provider issued and still honours: the signature
\* verifies, it has not expired and the user's session has not ended.
ActiveAtProvider(token) ==
    /\ IsJwt(token)
    /\ token.sig = "good"
    /\ token.exp > now
    /\ token.user \in sessions

\* keycloak_openid.userinfo(token): GET on the userinfo endpoint with the
\* token as bearer credential.  The request names no client, so the
\* provider does not compare the audience with the gateway's client id.
userinfo(token, up) ==
    IF ~up THEN Raise("ProviderUnreachable")
    ELSE IF ~ActiveAtProvider(token) THEN Raise("KeycloakAuthenticationError")
    ELSE Return(UserClaims(token.user))

\* keycloak_openid.decode_token(token, key=..., options=...): local check
\* of signature, audience and expiry.
decode_token(token, up) ==
    IF ~IsJwt(token) THEN Raise("Malformed")
    ELSE IF token.sig # "good" THEN Raise("BadSignature")
    ELSE IF token.exp <= now THEN Raise("Expired")
    ELSE IF token.aud # KEYCLOAK_CLIENT_ID THEN Raise("AudienceMismatch")
    ELSE Return(UserClaims(token.user))

AuthorizationEndpoint ==
    KEYCLOAK_URL \o "/realms/" \o KEYCLOAK_REALM \o "/protocol/openid-connect/auth"

\* keycloak_openid.auth_url(redirect_uri=, scope=, state=): the provider's
\* authorization URL, kept as its parts.
auth_url(redirect_uri, scope, state) ==
    [endpoint |-> AuthorizationEndpoint,
     client_id |-> KEYCLOAK_CLIENT_ID,
     response_type |-> "code",
     redirect_uri |-> redirect_uri,
     scope |-> scope,
     state |-> state]

\* auth_url's own default for state, used when the caller passes none.
AuthUrlDefaultState == ""

(***************************************************************************)
(* Responses.                                                              *)
(***************************************************************************)
NoHeaders == [h \in {} |-> ""]

\* RedirectResponse's default status code.
RedirectStatus == 307

\* starlette Response(status_code=, headers=): no body.
Response(status, headers) ==
    [status |-> status, headers |-> headers, body |-> "",
     location |-> None, set_cookie |-> None]

RedirectResponse(url) ==
    [status |-> RedirectStatus, headers |-> NoHeaders, body |-> "",
     location |-> url, set_cookie |-> None]

\* raise HTTPException(status_code=, detail=)
HTTPException(status, detail) ==
    [status |-> status, headers |-> NoHeaders, body |-> detail,
     location |-> None, set_cookie |-> None]

(***************************************************************************)
(* GET /api/auth  (forward_auth, main.py lines 44-103)                     *)
(***************************************************************************)
SESSION_COOKIE == "lymphhub_session"
CALLBACK_URL == LYMPHHUB_PUBLIC_URL \o "/api/callback"
SCOPE == "openid email profile"

\* A variant of the cookie lookup that reads another cookie name.
Decode_OtherName(cookies) == Get(cookies, "session", None)

\* lymphhub_session: Optional[str] = Cookie(None): the cookie of the
\* parameter's name, None when the request has none.
Decode(cookies) == Get(cookies, SESSION_COOKIE, None)

\* "text/html" in request.headers.get("Accept", ""): the Accept header is
\* kept as the list of its media ranges.
AcceptsHtml(headers) ==
    LET accept == Get(headers, "Accept", <<>>)
    IN \E i \in 1..Len(accept) : accept[i] = "text/html"

\* A variant of the original URL that ignores the forwarded protocol.
TargetUrl_NoProto(headers) ==
    LET original_uri == Get(headers, "X-Forwarded-Uri", "/")
        original_host == Get(headers, "X-Forwarded-Host", "")
    IN IF original_host # ""
       THEN "http://" \o original_host \o original_uri
       ELSE original_uri

\* Lines 58-62: the URL the browser asked for, from Traefik's headers.
TargetUrl(headers) ==
    LET original_uri == Get(headers, "X-Forwarded-Uri", "/")
        original_host == Get(headers, "X-Forwarded-Host", "")
        proto == Get(headers, "X-Forwarded-Proto", "http")
    IN IF original_host # ""
       THEN proto \o "://" \o original_host \o original_uri
       ELSE original_uri

\* A variant of the no-session branch that redirects every caller.
NoSessionResponse_AlwaysRedirect(headers) ==
    RedirectResponse(auth_url(CALLBACK_URL, SCOPE, TargetUrl(headers)))

\* A variant of the no-session branch that answers API callers 403.
NoSessionResponse_Forbidden(headers) ==
    IF AcceptsHtml(headers)
    THEN RedirectResponse(auth_url(CALLBACK_URL, SCOPE, TargetUrl(headers)))
    ELSE Response(403, NoHeaders)

\* Lines 52-71: no session cookie.
NoSessionResponse(headers) ==
    IF AcceptsHtml(headers)
    THEN RedirectResponse(auth_url(CALLBACK_URL, SCOPE, TargetUrl(headers)))
    ELSE Response(401, NoHeaders)

\* Line 83: decode locally when a public key is configured, else ask the
\* provider's userinfo endpoint.
VerifyToken(token, up) ==
    IF KEYCLOAK_PUBLIC_KEY_in_globals
    THEN decode_token(token, up)
    ELSE userinfo(token, up)

\* A variant of the identity headers with email and name exchanged.
IdentityHeaders_Swapped(token_info) ==
    [h \in {"X-Auth-User", "X-Auth-Email", "X-Auth-Name"} |->
        IF h = "X-Auth-User" THEN Get(token_info, "preferred_username", "")
        ELSE IF h = "X-Auth-Email" THEN Get(token_info, "name", "")
        ELSE Get(token_info, "email", "")]

\* Lines 87-91.
IdentityHeaders(token_info) ==
    [h \in {"X-Auth-User", "X-Auth-Email", "X-Auth-Name"} |->
        IF h = "X-Auth-User" THEN Get(token_info, "preferred_username", "")
        ELSE IF h = "X-Auth-Email" THEN Get(token_info, "email", "")
        ELSE Get(token_info, "name", "")]

\* A variant of the except branch that lets the request through.
AuthFailedResponse_FailOpen(headers) == Response(200, NoHeaders)

\* A variant of the except branch that deletes the cookie it refused.
AuthFailedResponse_ClearsCookie(headers) ==
    [Response(401, NoHeaders) EXCEPT !.set_cookie =
        [key |-> "lymphhub_session", value |-> [raw |-> ""],
         httponly |-> FALSE, domain |-> "", max_age |-> 0,
         secure |-> FALSE, samesite |-> "lax"]]

\* A variant of the except branch that reports the failure in a header.
AuthFailedResponse_Leaky(headers) ==
    Response(401, "X-Auth-User" :> "KeycloakAuthenticationError")

\* A variant of the except branch that passes the original URL as state.
AuthFailedResponse_Propagates(headers) ==
    IF AcceptsHtml(headers)
    THEN RedirectResponse(auth_url(CALLBACK_URL, SCOPE, TargetUrl(headers)))
    ELSE Response(401, NoHeaders)

\* Lines 94-103: the except branch.
AuthFailedResponse(headers) ==
    IF AcceptsHtml(headers)
    THEN RedirectResponse(auth_url(CALLBACK_URL, SCOPE, AuthUrlDefaultState))
    ELSE Response(401, NoHeaders)

\* A variant of the try block that answers 200 whatever the verifier says.
VerifiedResponse_Swallow(headers, token, up) ==
    LET token_info == VerifyToken(token, up)
    IN IF token_info.ok
       THEN Response(200, IdentityHeaders(token_info.value))
       ELSE Response(200, NoHeaders)

\* Lines 73-92: the try block.
VerifiedResponse(headers, token, up) ==
    LET token_info == VerifyToken(token, up)
    IN IF token_info.ok
       THEN Response(200, IdentityHeaders(token_info.value))
       ELSE AuthFailedResponse(headers)

\* The handler: the session it read, the provider calls it made, its
\* response.
forward_auth(req, up) ==
    LET lymphhub_session == Decode(req.cookies)
    IN IF Falsy(lymphhub_session)
       THEN [session |-> lymphhub_session, calls |-> <<>>,
             resp |-> NoSessionResponse(req.headers)]
       ELSE [session |-> lymphhub_session,
             calls |-> <<IF KEYCLOAK_PUBLIC_KEY_in_globals
                         THEN "decode_token" ELSE "userinfo">>,
             resp |-> VerifiedResponse(req.headers, lymphhub_session, up)]

(***************************************************************************)
(* GET /api/callback  (callback, main.py lines 114-138)                    *)
(***************************************************************************)
\* token.get("expires_in", 300)
DEFAULT_MAX_AGE == 300

\* The longest access-token lifetime the provider grants, in clock ticks.
MaxLifetime == 1

\* What the provider decides when it grants a token: the token's lifetime
\* and whether the token response reports it as expires_in.
Grants == [lifetime : 1..MaxLifetime, reports_expiry : BOOLEAN]

\* The provider accepts the code: it is outstanding, and was issued to this
\* client for this redirect_uri.
CodeAccepted(code, redirect_uri) ==
    /\ code \in codes
    /\ code.client_id = KEYCLOAK_CLIENT_ID
    /\ code.redirect_uri = redirect_uri

\* keycloak_openid.token(grant_type="authorization_code", code=, redirect_uri=)
token_endpoint(code, redirect_uri, up, grant) ==
    IF ~up THEN Raise("ProviderUnreachable")
    ELSE IF code \notin codes THEN Raise("invalid_grant: Code not valid")
    ELSE IF ~CodeAccepted(code, redirect_uri)
         THEN Raise("invalid_grant: Incorrect redirect_uri")
    ELSE LET access_token == [user |-> code.user, sig |-> "good",
                              aud |-> KEYCLOAK_CLIENT_ID,
                              exp |-> now + grant.lifetime]
         IN Return(IF grant.reports_expiry
                   THEN [access_token |-> access_token,
                         expires_in |-> grant.lifetime]
                   ELSE [access_token |-> access_token])

\* A variant of set_cookie with a fixed Max-Age.
SetSessionCookie_FixedAge(response, access_token, token) ==
    [response EXCEPT !.set_cookie =
        [key |-> SESSION_COOKIE,
         value |-> access_token,
         httponly |-> TRUE,
         domain |-> COOKIE_DOMAIN,
         max_age |-> DEFAULT_MAX_AGE,
         secure |-> TRUE,
         samesite |-> "lax"]]

\* response.set_cookie(...), lines 127-135.
SetSessionCookie(response, access_token, token) ==
    [response EXCEPT !.set_cookie =
        [key |-> SESSION_COOKIE,
         value |-> access_token,
         httponly |-> TRUE,
         domain |-> COOKIE_DOMAIN,
         max_age |-> Get(token, "expires_in", DEFAULT_MAX_AGE),
         secure |-> TRUE,
         samesite |-> "lax"]]

\* A variant of the successful callback that always redirects to "/".
CallbackSuccess_Home(state, token) ==
    SetSessionCookie(RedirectResponse("/"), token.access_token, token)

\* Lines 122-136: the exchange succeeded.
CallbackSuccess(state, token) ==
    SetSessionCookie(RedirectResponse(state), token.access_token, token)

\* A variant of the handler that exchanges the code with another
\* redirect_uri than the login URLs carry.
callback_OtherRedirect(req, up, grant) ==
    IF "code" \notin DOMAIN req.query
    THEN [calls |-> <<>>, token |-> Raise("missing"),
          resp |-> HTTPException(422, "field required")]
    ELSE LET state == Get(req.query, "state", "/")
             token == token_endpoint(req.query.code,
                                     LYMPHHUB_PUBLIC_URL \o "/callback", up, grant)
         IN [calls |-> <<"token">>, token |-> token,
             resp |-> IF token.ok
                      THEN CallbackSuccess(state, token.value)
                      ELSE HTTPException(400, token.error)]

\* A variant of the handler that never reads the state parameter.
callback_DefaultState(req, up, grant) ==
    IF "code" \notin DOMAIN req.query
    THEN [calls |-> <<>>, token |-> Raise("missing"),
          resp |-> HTTPException(422, "field required")]
    ELSE LET token == token_endpoint(req.query.code, CALLBACK_URL, up, grant)
         IN [calls |-> <<"token">>, token |-> token,
             resp |-> IF token.ok
                      THEN CallbackSuccess("/", token.value)
                      ELSE HTTPException(400, token.error)]

\* The handler.  `code` is a required query parameter: FastAPI answers 422
\* without calling the handler when it is missing.  `state` defaults to "/".
callback(req, up, grant) ==
    IF "code" \notin DOMAIN req.query
    THEN [calls |-> <<>>, token |-> Raise("missing"),
          resp |-> HTTPException(422, "field required")]
    ELSE LET state == Get(req.query, "state", "/")
             token == token_endpoint(req.query.code, CALLBACK_URL, up, grant)
         IN [calls |-> <<"token">>, token |-> token,
             resp |-> IF token.ok
                      THEN CallbackSuccess(state, token.value)
                      ELSE HTTPException(400, token.error)]

(***************************************************************************)
(* GET /api/login  (login, main.py lines 105-112)                          *)
(***************************************************************************)
\* A variant of login that drops the caller's redirect_url.
login_NoState(req) ==
    RedirectResponse(auth_url(CALLBACK_URL, SCOPE, "/"))

\* def login(redirect_url: str = "/")
login(req) ==
    LET redirect_url == Get(req.query, "redirect_url", "/")
    IN RedirectResponse(auth_url(CALLBACK_URL, SCOPE, redirect_url))

(***************************************************************************)
(* GET /api/user/me  (get_current_user, main.py lines 140-148)             *)
(***************************************************************************)
\* A dict returned by a handler: FastAPI sends it as JSON with status 200.
JSONResponse(content) ==
    [status |-> 200, headers |-> NoHeaders, body |-> content,
     location |-> None, set_cookie |-> None]

\* A variant of get_current_user that reports a failed lookup as signed in.
get_current_user_Optimistic(req, up) ==
    LET lymphhub_session == Decode(req.cookies)
    IN IF Falsy(lymphhub_session)
       THEN [calls |-> <<>>, resp |-> JSONResponse([authenticated |-> FALSE])]
       ELSE [calls |-> <<"userinfo">>,
             resp |-> JSONResponse([authenticated |-> TRUE,
                                    user |-> [sub |-> "unknown"]])]

get_current_user(req, up) ==
    LET lymphhub_session == Decode(req.cookies)
    IN IF Falsy(lymphhub_session)
       THEN [calls |-> <<>>, resp |-> JSONResponse([authenticated |-> FALSE])]
       ELSE LET userinfo_ == userinfo(lymphhub_session, up)
            IN [calls |-> <<"userinfo">>,
                resp |-> IF userinfo_.ok
                         THEN JSONResponse([authenticated |-> TRUE,
                                            user |-> userinfo_.value])
                         ELSE JSONResponse([authenticated |-> FALSE])]

(***************************************************************************)
(* GET /api/services and GET /api/health  (main.py lines 34-42, 150-152)   *)
(***************************************************************************)
\* The service directory; the icon of an entry, an emoji, is left out.
SERVICES ==
    <<[id |-> "plane", name |-> "Plane", url |-> "https://todo.lyckabc.xyz",
       description |-> "Project Management"],
      [id |-> "keycloak", name |-> "Keycloak", url |-> "https://auth.lyckabc.xyz",
       description |-> "Identity Provider"],
      [id |-> "pgadmin", name |-> "pgAdmin", url |-> "https://pgadmin.lyckabc.xyz",
       description |-> "Database Management"]>>

\* A variant of get_services that lists the services only for a client
\* that holds a cookie.
get_services_SignedInOnly ==
    JSONResponse(IF jar = None THEN <<>> ELSE SERVICES)

get_services == JSONResponse(SERVICES)

health_check == JSONResponse([status |-> "ok"])

(***************************************************************************)
(* The client and its requests.                                            *)
(***************************************************************************)
AcceptHeaders ==
    {NoHeaders} \cup
    {"Accept" :> v : v \in {<<"text/html", "application/xhtml+xml", "*/*">>,
                            <<"application/json">>,
                            <<"*/*">>}}

ForwardedHeaders ==
    {NoHeaders,
     ("X-Forwarded-Host" :> "todo.lyckabc.xyz") @@ ("X-Forwarded-Uri" :> "/dashboard"),
     ("X-Forwarded-Proto" :> "https") @@ ("X-Forwarded-Host" :> "todo.lyckabc.xyz")
        @@ ("X-Forwarded-Uri" :> "/dashboard"),
     ("X-Forwarded-Proto" :> "https") @@ ("X-Forwarded-Host" :> "")
        @@ ("X-Forwarded-Uri" :> "/dashboard")}

\* The headers of a request to /api/auth.
HeaderSets == {a @@ f : a \in AcceptHeaders, f \in ForwardedHeaders}

NoCookies == [c \in {} |-> None]

\* A cookie the client holds without the gateway having set it: left from
\* elsewhere, edited or forged.  It has no Max-Age.
Planted(key, value) ==
    [cookie |-> [key |-> key, value |-> value], by_callback |-> FALSE]

PlantedJars ==
    {Planted("theme", Malformed)}
    \cup {Planted(SESSION_COOKIE, v) : v \in CookieValues}

\* The client stores the cookie of a Set-Cookie header.
Stored(set_cookie, access_token) ==
    [cookie |-> set_cookie, by_callback |-> TRUE,
     expires |-> now + set_cookie.max_age, issued |-> access_token]

\* The client's jar after a response: a Set-Cookie header replaces the
\* cookie, a response without one leaves the jar as it is.
AfterResponse(resp) ==
    IF resp.set_cookie # None
    THEN Stored(resp.set_cookie, resp.set_cookie.value) @@ [by_flow |-> FALSE]
    ELSE jar

\* The cookies the client sends: the jar's cookie until its Max-Age is over.
JarCookies ==
    IF jar = None THEN NoCookies
    ELSE IF jar.by_callback /\ now >= jar.expires THEN NoCookies
    ELSE jar.cookie.key :> jar.cookie.value

BadCode == [raw |-> "bogus"]

StateInputs == {"/dashboard", "https://evil.example/"}

\* The query strings of a callback request: the one the provider sent the
\* client with, or any code with or without any state.
CallbackQueries ==
    LET cs == codes \cup {BadCode}
    IN {[q \in {} |-> ""]}
       \cup {"state" :> s : s \in StateInputs}
       \cup {"code" :> c : c \in cs}
       \cup {("code" :> c) @@ ("state" :> s) : c \in cs, s \in StateInputs}
       \cup (IF nav.kind = "callback" THEN {nav.query} ELSE {})

\* The query strings of a login request.
LoginQueries ==
    {[q \in {} |-> ""]} \cup {"redirect_url" :> s : s \in StateInputs}

(***************************************************************************)
(* The Keycloak SDK  (middle/keycloak-sdk/src/keycloak_sdk/client.py)      *)
(* The realm is passed to the operators and returned by those that change  *)
(* it; `fresh` is the secret the provider generates for a new confidential *)
(* client.                                                                 *)
(***************************************************************************)
\* Client secrets the provider may generate in one run.
MaxSecrets == 2

\* The script's client and one other client of the realm.
ClientIds == {"temporal-ui", "grafana"}

\* The provider's internal id (a UUID) of a client.
InternalId(client_id) == [uuid |-> client_id]

EmptyRealm == [c \in ClientIds |-> None]

\* KeycloakAdmin.get_client_id: the internal id, or None when the realm has
\* no client with this clientId.
admin_get_client_id(r, client_id) ==
    IF r[client_id] = None THEN None ELSE r[client_id].id

\* KeycloakAdmin.get_client_secrets: the credential representation; a
\* public client has no "value".
admin_get_client_secrets(r, internal_id) ==
    LET c == r[internal_id.uuid]
    IN IF c.publicClient THEN [type |-> "secret"]
       ELSE [type |-> "secret", value |-> c.secret]

\* KeycloakAdmin.create_client(payload, skip_exists): an existing clientId
\* is returned as it is with skip_exists and is a conflict without.
admin_create_client(r, payload, skip_exists, fresh) ==
    IF r[payload.clientId] # None
    THEN IF skip_exists
         THEN [ok |-> TRUE, value |-> r[payload.clientId].id, realm |-> r]
         ELSE [ok |-> FALSE, error |-> "409 Conflict", realm |-> r]
    ELSE [ok |-> TRUE, value |-> InternalId(payload.clientId),
          realm |-> [r EXCEPT ![payload.clientId] =
                        [id |-> InternalId(payload.clientId),
                         publicClient |-> payload.publicClient,
                         secret |-> IF payload.publicClient THEN None ELSE fresh]]]

\* Lines 103-142.
create_oidc_client(r, client_id, confidential, skip_exists, fresh) ==
    LET payload == [clientId |-> client_id,
                    protocol |-> "openid-connect",
                    enabled |-> TRUE,
                    publicClient |-> ~confidential]
    IN admin_create_client(r, payload, skip_exists, fresh)

\* Lines 144-157.
get_client_secret(r, client_id) ==
    LET internal_id == admin_get_client_id(r, client_id)
    IN IF internal_id = None THEN None
       ELSE Get(admin_get_client_secrets(r, internal_id), "value", None)

\* Lines 164-166.
client_exists(r, client_id) == admin_get_client_id(r, client_id) # None

\* Lines 168-197: the secret is read whether or not the client was created
\* by this call.  An exception of create_oidc_client propagates.
create_temporal_oidc_client(r, client_id, skip_exists, fresh) ==
    LET created == create_oidc_client(r, client_id, TRUE, skip_exists, fresh)
    IN IF ~created.ok THEN created
       ELSE [ok |-> TRUE, realm |-> created.realm,
             value |-> [client_id |-> client_id,
                        secret |-> get_client_secret(created.realm, client_id)]]

\* scripts/setup_temporal_keycloak.py, main(): what it prints.
main(r, has_credentials, fresh) ==
    IF ~has_credentials
    THEN [realm |-> r, secret |-> None, printed |-> "ERROR"]
    ELSE LET t == create_temporal_oidc_client(r, "temporal-ui", TRUE, fresh)
         IN [realm |-> t.realm, secret |-> t.value.secret,
             printed |-> IF t.value.secret # None
                         THEN "Client Secret"
                         ELSE "Client already exists"]

(***************************************************************************)
(* The state machine.                                                      *)
(***************************************************************************)
Idle == [kind |-> "idle"]

\* No request is being answered.
NoExchange == [endpoint |-> "none"]

\* The SDK has not been called.
NoCall == [op |-> "none"]

Init ==
    /\ now = 0
    /\ sessions \in SUBSET Users
    /\ codes = {}
    /\ jar = None
    /\ nav = Idle
    /\ last = NoExchange
    /\ realm = EmptyRealm
    /\ minted = 0
    /\ sdk = NoCall

\* The provider's clock advances.
Tick ==
    /\ last = NoExchange
    /\ now < MaxTime
    /\ now' = now + 1
    /\ UNCHANGED <<sessions, codes, jar, nav, last, realm, minted, sdk>>

\* A user's session at the provider ends (logout, revocation).
SessionEnd(u) ==
    /\ last = NoExchange
    /\ u \in sessions
    /\ sessions' = sessions \ {u}
    /\ UNCHANGED <<now, codes, jar, nav, last, realm, minted, sdk>>

\* An outstanding authorization code expires unused.
CodeExpire(c) ==
    /\ last = NoExchange
    /\ c \in codes
    /\ codes' = codes \ {c}
    /\ UNCHANGED <<now, sessions, jar, nav, last, realm, minted, sdk>>

\* The client's cookie is replaced from outside the gateway.
PlantCookie(j) ==
    /\ last = NoExchange
    /\ jar' = j
    /\ UNCHANGED <<now, sessions, codes, nav, last, realm, minted, sdk>>

\* GET /api/auth: the proxy asks for the client's request, with the
\* client's cookies.  On a redirect the client goes to the provider's login
\* page; `origin` remembers the request that sent it there.
ForwardAuth(headers, up) ==
    LET req == [cookies |-> JarCookies, headers |-> headers]
        r == forward_auth(req, up)
    IN /\ last = NoExchange
       /\ last' = [endpoint |-> "auth", req |-> req, up |-> up,
                   session |-> r.session, calls |-> r.calls, resp |-> r.resp]
       /\ nav' = IF r.resp.status = RedirectStatus
                 THEN [kind |-> "login", url |-> r.resp.location,
                       origin |-> IF Falsy(r.session)
                                  THEN [endpoint |-> "auth", no_session |-> TRUE,
                                        headers |-> headers]
                                  ELSE [endpoint |-> "auth", no_session |-> FALSE]]
                 ELSE Idle
       /\ jar' = AfterResponse(r.resp)
       /\ UNCHANGED <<now, sessions, codes, realm, minted, sdk>>

\* The user signs in on the provider's login page: the provider opens a
\* session, issues a code for the client and redirect_uri of the login URL,
\* and sends the client to that redirect_uri with the code and the state.
ProviderLogin(u) ==
    /\ last = NoExchange
    /\ nav.kind = "login"
    /\ Cardinality(codes) < MaxCodes
    /\ LET code == [user |-> u, client_id |-> nav.url.client_id,
                    redirect_uri |-> nav.url.redirect_uri]
       IN /\ codes' = codes \cup {code}
          /\ nav' = [kind |-> "callback",
                     query |-> ("code" :> code) @@ ("state" :> nav.url.state),
                     origin |-> nav.origin]
    /\ sessions' = sessions \cup {u}
    /\ UNCHANGED <<now, jar, last, realm, minted, sdk>>

\* The request that started the login flow a callback request completes;
\* None for a callback request the provider did not send the client to.
OriginOf(query) ==
    IF nav.kind = "callback" /\ query = nav.query THEN nav.origin ELSE None

\* The flow began with the redirect of a request that had no session.
BrowserFlow(origin) ==
    /\ origin # None
    /\ origin.endpoint = "auth"
    /\ origin.no_session

\* GET /api/callback.  A redeemed code is spent at the provider; the client
\* stores the cookie of the response, and whether a browser flow led to it.
Callback(query, up, grant) ==
    LET req == [query |-> query]
        r == callback(req, up, grant)
    IN /\ last = NoExchange
       /\ last' = [endpoint |-> "callback", req |-> req, up |-> up,
                   token |-> r.token, calls |-> r.calls, resp |-> r.resp,
                   origin |-> OriginOf(query)]
       /\ codes' = IF r.token.ok THEN codes \ {query.code} ELSE codes
       /\ jar' = IF r.resp.set_cookie # None
                 THEN Stored(r.resp.set_cookie, r.token.value.access_token)
                      @@ [by_flow |-> BrowserFlow(OriginOf(query))]
                 ELSE jar
       /\ nav' = Idle
       /\ UNCHANGED <<now, sessions, realm, minted, sdk>>

\* GET /api/login: the client is sent to the provider's login page.
Login(query) ==
    LET req == [query |-> query]
        resp == login(req)
    IN /\ last = NoExchange
       /\ last' = [endpoint |-> "login", req |-> req, calls |-> <<>>,
                   resp |-> resp]
       /\ nav' = [kind |-> "login", url |-> resp.location,
                  origin |-> [endpoint |-> "login", query |-> query]]
       /\ jar' = AfterResponse(resp)
       /\ UNCHANGED <<now, sessions, codes, realm, minted, sdk>>

\* GET /api/user/me with the client's cookies.
UserMe(up) ==
    LET req == [cookies |-> JarCookies]
        r == get_current_user(req, up)
    IN /\ last = NoExchange
       /\ last' = [endpoint |-> "user", req |-> req, up |-> up,
                   calls |-> r.calls, resp |-> r.resp]
       /\ jar' = AfterResponse(r.resp)
       /\ UNCHANGED <<now, sessions, codes, nav, realm, minted, sdk>>

\* GET /api/services.
Services ==
    /\ last = NoExchange
    /\ last' = [endpoint |-> "services", req |-> [cookies |-> JarCookies],
                calls |-> <<>>, resp |-> get_services]
    /\ jar' = AfterResponse(get_services)
    /\ UNCHANGED <<now, sessions, codes, nav, realm, minted, sdk>>

\* GET /api/health.
Health ==
    /\ last = NoExchange
    /\ last' = [endpoint |-> "health", req |-> [cookies |-> JarCookies],
                calls |-> <<>>, resp |-> health_check]
    /\ jar' = AfterResponse(health_check)
    /\ UNCHANGED <<now, sessions, codes, nav, realm, minted, sdk>>

\* The response has been sent: the gateway keeps nothing of the exchange
\* and takes the next request.
Complete ==
    /\ last # NoExchange
    /\ last' = NoExchange
    /\ UNCHANGED <<now, sessions, codes, jar, nav, realm, minted, sdk>>

Next ==
    \/ Tick
    \/ \E u \in Users : SessionEnd(u)
    \/ \E c \in codes : CodeExpire(c)
    \/ \E j \in PlantedJars : PlantCookie(j)
    \/ \E h \in HeaderSets, up \in BOOLEAN : ForwardAuth(h, up)
    \/ \E u \in Users : ProviderLogin(u)
    \/ \E q \in CallbackQueries, up \in BOOLEAN, g \in Grants : Callback(q, up, g)
    \/ \E q \in LoginQueries : Login(q)
    \/ \E up \in BOOLEAN : UserMe(up)
    \/ Services
    \/ Health
    \/ Complete

Spec == Init /\ [][Next]_vars

(***************************************************************************)
(* The SDK's operations as steps on the realm.                             *)
(***************************************************************************)
Fresh == [secret |-> minted + 1]

\* The call put a newly generated secret into the realm.
Minted(r) == \E c \in ClientIds : r[c] # None /\ r[c].secret = Fresh

\* The realm after a call; a call that needs a new secret waits for one.
RealmStep(r) ==
    /\ Minted(r) => minted < MaxSecrets
    /\ realm' = r
    /\ minted' = IF Minted(r) THEN minted + 1 ELSE minted
    /\ UNCHANGED <<now, sessions, codes, jar, nav, last>>

\* python scripts/setup_temporal_keycloak.py
SetupScript(has_credentials) ==
    LET r == main(realm, has_credentials, Fresh)
    IN /\ RealmStep(r.realm)
       /\ sdk' = [op |-> "setup", ran |-> has_credentials,
                  existed |-> client_exists(realm, "temporal-ui"),
                  secret |-> r.secret, printed |-> r.printed]

\* sdk.create_temporal_oidc_client(client_id=, skip_exists=)
CreateTemporal(client_id, skip_exists) ==
    LET r == create_temporal_oidc_client(realm, client_id, skip_exists, Fresh)
    IN /\ RealmStep(r.realm)
       /\ sdk' = [op |-> "create_temporal_oidc_client", ok |-> r.ok,
                  client_id |-> client_id,
                  existed |-> client_exists(realm, client_id),
                  result |-> IF r.ok THEN r.value ELSE None]

\* sdk.create_oidc_client(client_id=, confidential=, skip_exists=)
CreateOidc(client_id, confidential, skip_exists) ==
    LET r == create_oidc_client(realm, client_id, confidential, skip_exists, Fresh)
    IN /\ RealmStep(r.realm)
       /\ sdk' = [op |-> "create_oidc_client", ok |-> r.ok,
                  client_id |-> client_id,
                  existed |-> client_exists(realm, client_id)]

\* sdk.get_client_secret(client_id=)
GetClientSecret(client_id) ==
    /\ sdk' = [op |-> "get_client_secret", client_id |-> client_id,
               secret |-> get_client_secret(realm, client_id)]
    /\ UNCHANGED <<now, sessions, codes, jar, nav, last, realm, minted>>

\* An administrator removes a client in the provider's console.
AdminDelete(client_id) ==
    /\ realm[client_id] # None
    /\ realm' = [realm EXCEPT ![client_id] = None]
    /\ UNCHANGED <<now, sessions, codes, jar, nav, last, minted, sdk>>

NextSdk ==
    \/ \E c \in BOOLEAN : SetupScript(c)
    \/ \E c \in ClientIds, s \in BOOLEAN : CreateTemporal(c, s)
    \/ \E c \in ClientIds, f \in BOOLEAN, s \in BOOLEAN : CreateOidc(c, f, s)
    \/ \E c \in ClientIds : GetClientSecret(c)
    \/ \E c \in ClientIds : AdminDelete(c)

SpecSdk == Init /\ [][NextSdk]_vars

(***************************************************************************)
(* Properties of GET /api/auth.                                            *)
(***************************************************************************)
AuthExchange == last.endpoint = "auth"

\* The request carries a session cookie.
HasSessionCookie == SESSION_COOKIE \in DOMAIN last.req.cookies

\* The request carries a session cookie that parses as a JWT.
CarriesJwt == HasSessionCookie /\ IsJwt(last.req.cookies[SESSION_COOKIE])

SentToken == last.req.cookies[SESSION_COOKIE]

IdentityHeaderNames == {"X-Auth-User", "X-Auth-Email", "X-Auth-Name"}

\* The response is a redirect to the provider's authorization endpoint.
LoginRedirect(resp) ==
    /\ resp.status = RedirectStatus
    /\ resp.location # None
    /\ resp.location.endpoint = AuthorizationEndpoint

\* C1: a request to /api/auth whose session token is expired or has an
\* invalid signature is never answered 200, whatever its Accept and
\* forwarding headers are.
C1_ExpiredOrForgedNever200 ==
    (AuthExchange /\ CarriesJwt
        /\ (SentToken.exp <= now \/ SentToken.sig # "good"))
    => last.resp.status # 200

\* An expired token, otherwise in order and sent while the provider is
\* reachable and the user's session is live, has been refused.
C1_Witness ==
    /\ AuthExchange /\ CarriesJwt
    /\ SentToken.exp <= now /\ SentToken.sig = "good"
    /\ SentToken.user \in sessions /\ last.up
    /\ last.resp.status = 401

\* The token is valid by itself: well signed, not expired, for this client.
ValidToken(t) ==
    /\ t.sig = "good"
    /\ t.exp > now
    /\ t.aud = KEYCLOAK_CLIENT_ID

\* The 200 response that carries the identity of the token's user: no body,
\* and each header equal to the user's claim, empty where there is none.
AllowedAs(resp, u) ==
    /\ resp.status = 200
    /\ resp.body = ""
    /\ DOMAIN resp.headers = IdentityHeaderNames
    /\ resp.headers["X-Auth-User"] = u
    /\ resp.headers["X-Auth-Email"] = (IF u = "alice" THEN "alice@lyckabc.xyz" ELSE "")
    /\ resp.headers["X-Auth-Name"] = (IF u = "alice" THEN "Alice Kim" ELSE "")

OriginalUrl(h) ==
    LET uri == IF "X-Forwarded-Uri" \in DOMAIN h THEN h["X-Forwarded-Uri"] ELSE "/"
        proto == IF "X-Forwarded-Proto" \in DOMAIN h THEN h["X-Forwarded-Proto"] ELSE "http"
    IN IF "X-Forwarded-Host" \in DOMAIN h /\ h["X-Forwarded-Host"] # ""
       THEN proto \o "://" \o h["X-Forwarded-Host"] \o uri
       ELSE uri

C4_NoSessionApi401 ==
    (AuthExchange /\ ~HasSessionCookie /\ ~AcceptsHtml(last.req.headers))
    => /\ last.resp.status = 401
       /\ last.resp.body = ""
       /\ last.resp.location = None

C4_Witness ==
    /\ AuthExchange /\ ~HasSessionCookie
    /\ "Accept" \in DOMAIN last.req.headers
    /\ ~AcceptsHtml(last.req.headers)
    /\ last.resp.status = 401

(***************************************************************************)
(* Properties of GET /api/callback.                                        *)
(***************************************************************************)
CallbackExchange == last.endpoint = "callback"

\* The handler asked the provider to exchange the code.
ExchangeTried == CallbackExchange /\ last.calls = <<"token">>

\* C5: when the provider accepts the code the callback redirects to the
\* state it received and sets the session cookie to the access token; when
\* the provider refuses, the answer is 400 and sets no cookie.
C5_CallbackOutcome ==
    /\ (ExchangeTried /\ last.token.ok)
       => /\ last.resp.status = RedirectStatus
          /\ last.resp.location =
                (IF "state" \in DOMAIN last.req.query
                 THEN last.req.query.state ELSE "/")
          /\ last.resp.set_cookie # None
          /\ last.resp.set_cookie.key = SESSION_COOKIE
          /\ last.resp.set_cookie.value = last.token.value.access_token
    /\ (ExchangeTried /\ ~last.token.ok)
       => /\ last.resp.status = 400
          /\ last.resp.set_cookie = None

C5_Witness ==
    /\ ExchangeTried /\ last.token.ok
    /\ "state" \in DOMAIN last.req.query
    /\ last.req.query.state = "/dashboard"
    /\ last.resp.location = "/dashboard"
    /\ jar # None /\ jar.by_callback

C5_WitnessRejected ==
    /\ ExchangeTried /\ ~last.token.ok /\ last.up
    /\ last.resp.status = 400

(***************************************************************************)
(* The provider is unreachable.                                            *)
(***************************************************************************)
\* A request to /api/auth whose session cookie had to be verified while the
\* provider did not answer.
VerifiedWhileUnreachable ==
    AuthExchange /\ last.calls # <<>> /\ ~last.up

AllowedRedirectTargets ==
    {"", "/", "/dashboard",
     "http://todo.lyckabc.xyz/", "https://todo.lyckabc.xyz/",
     "http://todo.lyckabc.xyz/dashboard", "https://todo.lyckabc.xyz/dashboard"}

\* C7: the callback never redirects to a state value outside the allowed
\* redirect targets.
C7_StateValidated ==
    (CallbackExchange /\ last.resp.status = RedirectStatus)
    => last.resp.location \in AllowedRedirectTargets

(***************************************************************************)
(* Audience.                                                               *)
(***************************************************************************)
\* C8: a session token that is well signed and unexpired but issued for
\* another audience than the configured client is never answered 200.
C8_AudienceChecked ==
    (AuthExchange /\ CarriesJwt
        /\ SentToken.sig = "good" /\ SentToken.exp > now
        /\ SentToken.aud # KEYCLOAK_CLIENT_ID)
    => last.resp.status # 200

(***************************************************************************)
(* Terminal outcomes.                                                      *)
(***************************************************************************)
Outcome200(resp) ==
    /\ resp.status = 200
    /\ DOMAIN resp.headers = IdentityHeaderNames
    /\ resp.location = None

OutcomeRedirect(resp) ==
    /\ LoginRedirect(resp)
    /\ resp.headers = NoHeaders

Outcome401(resp) ==
    /\ resp.status = 401
    /\ resp.headers = NoHeaders
    /\ resp.body = ""
    /\ resp.location = None

SentCallbackCookie ==
    /\ AuthExchange
    /\ jar # None /\ jar.by_callback
    /\ last.req.cookies # NoCookies

\* C10: the token the handler reads from the lymphhub_session cookie is the
\* access token the callback put into it; every cookie the callback sets
\* has Domain = COOKIE_DOMAIN, Secure and HttpOnly.
C10_CookieRoundTrip ==
    /\ SentCallbackCookie => last.session = jar.issued
    /\ (CallbackExchange /\ last.resp.set_cookie # None)
       => /\ last.resp.set_cookie.value = last.token.value.access_token
          /\ last.resp.set_cookie.domain = COOKIE_DOMAIN
          /\ last.resp.set_cookie.secure
          /\ last.resp.set_cookie.httponly

C10_Witness ==
    /\ SentCallbackCookie
    /\ last.session = jar.issued
    /\ IsJwt(last.session)
    /\ jar.cookie.domain = COOKIE_DOMAIN
    /\ last.resp.status = 200

(***************************************************************************)
(* Identity headers.                                                       *)
(***************************************************************************)
\* The texts of the errors a provider call can raise.
ErrorTexts ==
    {"ProviderUnreachable", "KeycloakAuthenticationError", "Malformed",
     "BadSignature", "Expired", "AudienceMismatch",
     "invalid_grant: Code not valid", "invalid_grant: Incorrect redirect_uri"}

CarriesIdentity(resp) == DOMAIN resp.headers \cap IdentityHeaderNames # {}

\* The handler verified the session it read and the verifier accepted it.
VerificationSucceeded ==
    ~Falsy(last.session) /\ VerifyToken(last.session, last.up).ok

\* The handler verified the session it read and the verifier raised.
VerificationFailed ==
    AuthExchange /\ ~Falsy(last.session) /\ ~VerifyToken(last.session, last.up).ok

\* C12: identity headers appear only on the 200 response of a successful
\* verification; redirects and 401 responses of /api/auth carry none, no
\* other endpoint sets one, and no header holds the text of an error.
C12_IdentityOnlyOnSuccess ==
    /\ AuthExchange
       => /\ CarriesIdentity(last.resp)
               => (last.resp.status = 200 /\ VerificationSucceeded)
          /\ last.resp.status # 200 => last.resp.headers = NoHeaders
    /\ (last # NoExchange /\ ~AuthExchange) => ~CarriesIdentity(last.resp)
    /\ last # NoExchange
       => \A h \in DOMAIN last.resp.headers : last.resp.headers[h] \notin ErrorTexts

\* The provider refused the token and the 401 carries no header.
C12_Witness ==
    /\ VerificationFailed /\ last.up
    /\ last.resp.status = 401
    /\ last.resp.headers = NoHeaders

(***************************************************************************)
(* GET /api/services.                                                      *)
(***************************************************************************)
\* C13: every answer of /api/services is the same static list of the three
\* services, whatever was requested before and whatever cookie the client
\* holds.
C13_ServicesStatic ==
    last.endpoint = "services"
    => /\ last.resp.status = 200
       /\ Len(last.resp.body) = 3
       /\ [i \in 1..3 |-> last.resp.body[i].id] = <<"plane", "keycloak", "pgadmin">>
       /\ last.resp.body = SERVICES

\* The list was served to a client without a cookie after a login redirect,
\* and to one holding the cookie of a callback.
C13_Witness ==
    /\ last.endpoint = "services"
    /\ jar # None /\ jar.by_callback
    /\ last.resp.body = SERVICES

(***************************************************************************)
(* GET /api/login.                                                         *)
(***************************************************************************)
LoginExchange == last.endpoint = "login"

\* The authorization URL of the login redirect carries what the provider
\* needs, and the caller's redirect_url as state ("/" when not given).
LoginUrlComplete ==
    /\ last.resp.location # None
    /\ last.resp.location.endpoint = AuthorizationEndpoint
    /\ last.resp.location.response_type = "code"
    /\ last.resp.location.client_id = "lymphhub-portal"
    /\ last.resp.location.redirect_uri = "https://lymphhub.lyckabc.xyz/api/callback"
    /\ last.resp.location.scope = "openid email profile"
    /\ last.resp.location.state =
          (IF "redirect_url" \in DOMAIN last.req.query
           THEN last.req.query.redirect_url ELSE "/")

\* C14 as stated: /api/login always answers 302 with the complete
\* authorization URL.
C14_Login302 ==
    LoginExchange => (last.resp.status = 302 /\ LoginUrlComplete)

\* C14, amended: /api/login always answers with a redirect of status 307,
\* RedirectResponse's default, to the complete authorization URL.
C14_LoginRedirects ==
    LoginExchange => (last.resp.status = 307 /\ LoginUrlComplete)

C14_Witness ==
    /\ LoginExchange
    /\ "redirect_url" \in DOMAIN last.req.query
    /\ last.resp.location.state = "/dashboard"
    /\ nav.kind = "login"

(***************************************************************************)
(* GET /api/user/me.                                                       *)
(***************************************************************************)
UserExchange == last.endpoint = "user"

\* The request has a session cookie and the provider's userinfo lookup for
\* it succeeds.
LookupSucceeds ==
    /\ HasSessionCookie
    /\ ~Falsy(SentToken)
    /\ userinfo(SentToken, last.up).ok

\* C15: /api/user/me answers authenticated=true with the user's claims
\* exactly when a session cookie is present and the userinfo lookup for it
\* succeeds; otherwise authenticated=false without a user field; the status
\* is never an error status.
C15_UserMe ==
    UserExchange
    => /\ last.resp.status = 200
       /\ LookupSucceeds
            => last.resp.body = [authenticated |-> TRUE,
                                 user |-> UserClaims(SentToken.user)]
       /\ ~LookupSucceeds => last.resp.body = [authenticated |-> FALSE]

\* A lookup that failed was answered authenticated=false.
C15_Witness ==
    /\ UserExchange /\ HasSessionCookie /\ ~Falsy(SentToken)
    /\ ~LookupSucceeds
    /\ last.resp.body = [authenticated |-> FALSE]

C15_WitnessSignedIn ==
    /\ UserExchange /\ LookupSucceeds
    /\ last.resp.body.authenticated

C18_CallbackUrlMatches ==
    /\ ((AuthExchange \/ LoginExchange) /\ last.resp.status = RedirectStatus)
       => last.resp.location.redirect_uri = "https://lymphhub.lyckabc.xyz/api/callback"
    /\ nav.kind = "login"
       => nav.url.redirect_uri = "https://lymphhub.lyckabc.xyz/api/callback"
    /\ (ExchangeTried /\ ~last.token.ok)
       => last.token.error # "invalid_grant: Incorrect redirect_uri"

\* A code obtained through the redirect of an invalid session was
\* exchanged.
C18_Witness ==
    /\ ExchangeTried /\ last.token.ok
    /\ "state" \in DOMAIN last.req.query
    /\ last.req.query.state = ""

(***************************************************************************)
(* The verification strategy.                                              *)
(***************************************************************************)
\* C19: every request to /api/auth that carries a session is decided by
\* the same strategy, the provider's userinfo lookup, and so by the token
\* and the provider's state alone: 200 exactly when the provider is
\* reachable and honours the token.
C19_OneStrategy ==
    (AuthExchange /\ ~Falsy(last.session))
    => /\ last.calls = <<"userinfo">>
       /\ last.resp.status = 200 <=> (last.up /\ ActiveAtProvider(last.session))

\* A token accepted at one time has been refused later, by the same
\* strategy, once it had expired.
C19_Witness ==
    /\ AuthExchange /\ IsJwt(last.session)
    /\ last.calls = <<"userinfo">>
    /\ last.up /\ last.session.sig = "good" /\ last.session.user \in sessions
    /\ now > 0
    /\ last.resp.status # 200

(***************************************************************************)
(* The attributes of the session cookie.                                   *)
(***************************************************************************)
CookieSet == CallbackExchange /\ last.resp.set_cookie # None

\* C20: the cookie the callback sets is named lymphhub_session, has
\* SameSite=Lax and a Max-Age equal to the expires_in of the provider's
\* token response, or 300 when the response has none.
C20_CookieAttributes ==
    CookieSet
    => /\ last.resp.set_cookie.key = "lymphhub_session"
       /\ last.resp.set_cookie.samesite = "lax"
       /\ last.resp.set_cookie.max_age =
             (IF "expires_in" \in DOMAIN last.token.value
              THEN last.token.value.expires_in ELSE 300)

C20_Witness ==
    /\ CookieSet
    /\ "expires_in" \in DOMAIN last.token.value
    /\ last.resp.set_cookie.max_age = last.token.value.expires_in
    /\ last.resp.set_cookie.max_age # 300

C20_WitnessDefault ==
    /\ CookieSet
    /\ "expires_in" \notin DOMAIN last.token.value
    /\ last.resp.set_cookie.max_age = 300

(***************************************************************************)
(* create_temporal_oidc_client and the setup script.                       *)
(***************************************************************************)
TemporalCall == sdk.op = "create_temporal_oidc_client" /\ sdk.ok

SetupRan == sdk.op = "setup" /\ sdk.ran

\* C16 as stated: create_temporal_oidc_client returns a secret of None
\* whenever the client existed before the call and the client's secret
\* only when the call created it; the script prints "Client already
\* exists" exactly when the client existed.
C16_SecretNoneWhenExisted ==
    /\ TemporalCall
       => /\ sdk.result.client_id = sdk.client_id
          /\ sdk.existed => sdk.result.secret = None
          /\ ~sdk.existed => sdk.result.secret # None
    /\ SetupRan
       => (sdk.printed = "Client already exists" <=> sdk.existed)

\* What the code does: the secret returned is whatever the client has
\* after the call, so None only for a public client.
C16_SecretAsStored ==
    /\ TemporalCall
       => sdk.result.secret = get_client_secret(realm, sdk.client_id)
          \/ realm[sdk.client_id] = None
    /\ SetupRan
       => (sdk.printed = "Client already exists" <=> sdk.secret = None)

\* The script ran on a realm that had a confidential temporal-ui and
\* printed its secret.
C16_SecondRunPrintsSecret ==
    /\ SetupRan /\ sdk.existed
    /\ sdk.printed = "Client Secret"

(***************************************************************************)
(* The login flow from end to end.                                         *)
(***************************************************************************)
\* The callback that is being answered completed a flow that began with
\* the redirect of a browser request without a session.
FlowCompleted ==
    /\ CallbackExchange /\ ExchangeTried /\ last.token.ok
    /\ BrowserFlow(last.origin)

\* The callback sends the client back to the URL the first request was
\* for, and the cookie the client stores is the signed-in user's token.
FlowLandsAtOrigin ==
    /\ last.resp.location = OriginalUrl(last.origin.headers)
    /\ jar.by_flow
    /\ jar.issued.user = last.req.query.code.user

\* A request to /api/auth presents the cookie of such a flow.
FlowCookiePresented == SentCallbackCookie /\ jar.by_flow

C21_WitnessLanding ==
    /\ FlowCompleted
    /\ TargetUrl(last.origin.headers) # "/"
    /\ last.resp.location = "https://todo.lyckabc.xyz/dashboard"

(***************************************************************************)
(* Who changes the session cookie.                                         *)
(***************************************************************************)
\* The exchange is a callback whose code the provider accepted.
CallbackSucceeded == ExchangeTried /\ last.token.ok

\* A step in which the gateway answers a request.
Answered == last = NoExchange /\ last' # NoExchange

\* C22: only a successful callback sets a cookie: the responses of
\* /api/auth on every branch, of /api/login, /api/user/me, /api/services,
\* /api/health and of a failed callback carry no Set-Cookie, and the
\* client's cookie is the same after them as before.
C22_OnlyCallbackSetsCookie ==
    [][Answered
       => LET succeeded == /\ last'.endpoint = "callback"
                           /\ last'.calls = <<"token">>
                           /\ last'.token.ok
          IN /\ last'.resp.set_cookie # None => succeeded
             /\ jar' # jar => succeeded]_vars

\* The same of the response alone, as a property of every state.
C22_NoSetCookieElsewhere ==
    (last # NoExchange /\ ~CallbackSucceeded) => last.resp.set_cookie = None

\* A cookie that failed verification is still the client's cookie after
\* the answer.
C22_Witness ==
    /\ VerificationFailed
    /\ jar # None /\ ~jar.by_callback
    /\ jar.cookie.key = "lymphhub_session"
    /\ jar.cookie.value = last.session
    /\ last.resp.set_cookie = None

\* The same after a failed callback.
C22_WitnessFailedCallback ==
    /\ ExchangeTried /\ ~last.token.ok
    /\ jar # None /\ ~jar.by_callback
    /\ jar.cookie.key = "lymphhub_session"

====
